---- MODULE Spec2Model ----
(***************************************************************************)
(* Model of the Tablut web client: the App component (reconciliation       *)
(* controller and two-click selection) and TablutSocketService (the        *)
(* request/acknowledgment transport over one socket).                      *)
(*                                                                         *)
(* One step of the model is one JavaScript task: an event handler together *)
(* with every promise continuation (microtask) it makes runnable.          *)
(* Strings built by concatenation are sequences of string fragments.       *)
(***************************************************************************)
EXTENDS Integers, Sequences, FiniteSets, TLC

VARIABLES
  state,                          \* App.state: held snapshot, or Null
  currentStateGameId,             \* App.currentStateGameId, or NoId
  loading,                        \* App.loading
  message,                        \* App.message
  logs,                           \* App.logs
  setupOpen,                      \* App.setupOpen
  setupSubmitting,                \* App.setupSubmitting
  setupHumanSide,                 \* App.setupHumanSide
  setupDifficulty,                \* App.setupDifficulty
  selectedFrom,                   \* App.selectedFrom, or Null
  pendingNewGameWithBotOpening,   \* App.pendingNewGameWithBotOpening
  urlId,                          \* query parameter g, or NoId
  lsId,                           \* localStorage tablut:gameId, or NoId
  connected,                      \* socket.connected
  calls,                          \* the emitAck invocations made so far
  clock,                          \* number of pushLog calls so far (the time of the stamp)
  last                            \* the handler that ran last, and what it was given

appVars == <<state, currentStateGameId, loading, message, logs, setupOpen,
             setupSubmitting, setupHumanSide, setupDifficulty, selectedFrom,
             pendingNewGameWithBotOpening, urlId, lsId>>
vars == <<state, currentStateGameId, loading, message, logs, setupOpen,
          setupSubmitting, setupHumanSide, setupDifficulty, selectedFrom,
          pendingNewGameWithBotOpening, urlId, lsId, connected, calls, clock, last>>

----------------------------------------------------------------------------
(* Bounds of the model *)

MaxCalls == 2

MaxPush == 2

----------------------------------------------------------------------------
(* Program constants and value domains *)

LogCap == 40

BoardSize == 9

Null == [null |-> TRUE]

NoId == ""

NoPiece == "-"

Sides == {"ATTACKER", "DEFENDER"}

Difficulties == {2, 4}

GameIds == {"g1", "g2"}

Pos(r, c) == [row |-> r, col |-> c]

Other(side) == IF side = "ATTACKER" THEN "DEFENDER" ELSE "ATTACKER"

(* The position the server's snapshots show: three attackers, two
   defenders and the king; one piece of each side cannot move. *)
Pieces ==
  { <<Pos(3, 4), "A">>, <<Pos(0, 3), "A">>, <<Pos(8, 8), "A">>,
    <<Pos(5, 4), "D">>, <<Pos(7, 7), "D">>, <<Pos(4, 6), "K">> }

Board ==
  [i \in 0..(BoardSize * BoardSize - 1) |->
     IF \E p \in Pieces : p[1].row * BoardSize + p[1].col = i
     THEN (CHOOSE p \in Pieces : p[1].row * BoardSize + p[1].col = i)[2]
     ELSE NoPiece]

Move(f, t) == [from |-> f, to |-> t, capturesPreview |-> <<>>]

LegalMovesOf(side) ==
  IF side = "ATTACKER"
  THEN << Move(Pos(3, 4), Pos(4, 4)), Move(Pos(3, 4), Pos(3, 5)), Move(Pos(0, 3), Pos(0, 2)) >>
  ELSE << Move(Pos(5, 4), Pos(5, 5)), Move(Pos(4, 6), Pos(4, 7)), Move(Pos(4, 6), Pos(3, 6)) >>

(* The i-th record of a move history: attackers move first, every third
   move captures one piece. *)
HistoryRecord(i) ==
  [turn |-> i,
   side |-> IF i % 2 = 1 THEN "ATTACKER" ELSE "DEFENDER",
   from |-> Pos(i % BoardSize, 0),
   to |-> Pos(i % BoardSize, 1),
   captures |-> IF i % 3 = 0 THEN << Pos(i % BoardSize, 2) >> ELSE <<>>,
   capturedPieces |-> IF i % 3 = 0 THEN << "D" >> ELSE <<>>]

History(n) == [i \in 1..n |-> HistoryRecord(i)]

LongGame == LogCap + 1

(* A TablutState as the server sends it. *)
Snapshot(id, humanSide, phase, n) ==
  LET toMove == IF n % 2 = 0 THEN "ATTACKER" ELSE "DEFENDER" IN
  [id |-> id,
   version |-> n,
   phase |-> phase,
   sideToMove |-> toMove,
   board |-> Board,
   humanSide |-> humanSide,
   botSide |-> Other(humanSide),
   winnerSide |-> IF phase = "GAME_OVER" THEN Other(toMove) ELSE "-",
   difficulty |-> 4,
   legalMoves |-> IF phase = "IN_PROGRESS" THEN LegalMovesOf(toMove) ELSE <<>>,
   moveHistory |-> History(n)]

(* What the server may push: a game not yet opened, a game after its first
   move, and a finished game, short or longer than the log holds. *)
Snapshots ==
  { Snapshot(id, hs, "IN_PROGRESS", n) : id \in GameIds, hs \in Sides, n \in {0, 1} }
  \cup
  { Snapshot(id, hs, "GAME_OVER", n) : id \in GameIds, hs \in Sides, n \in {2, LongGame} }

----------------------------------------------------------------------------
(* Text: a string is a sequence of fragments; the second fragment of a log
   line is its number (time stamp or turn), every other fragment a string. *)

Undefined == << "<undefined>" >>

Coalesce(x, d) == IF x = Undefined THEN d ELSE x

Take(s, n) == IF Len(s) <= n THEN s ELSE SubSeq(s, 1, n)

Reverse(s) == [i \in 1..Len(s) |-> s[Len(s) + 1 - i]]

SideLabel(side) == IF side = "ATTACKER" THEN "Atacante" ELSE "Defensor"

PosText(p) == << "(", ToString(p.row), ",", ToString(p.col), ")" >>

MoveText(side, from, to, c) ==
  << SideLabel(side), ": " >> \o PosText(from) \o << " -> " >> \o PosText(to)
    \o (IF c # 0 THEN << " x", ToString(c) >> ELSE <<>>)

MoveResultLine(mv) == MoveText(mv.side, mv.from, mv.to, Len(mv.captures))

GameOverLine(winnerSide) == << "Fin de partida. Ganador: ", SideLabel(winnerSide) >>

GameOverMessage(winnerSide) == << "Juego terminado. Ganador: ", SideLabel(winnerSide) >>

HistoryLine(mv) ==
  << "#", mv.turn, " " >> \o MoveText(mv.side, mv.from, mv.to, Len(mv.captures))

PushLogMutAppend(items, now, msg) == Take(items \o << << "[", now, "] " >> \o msg >>, LogCap)

(* App.pushLog: the stamped line goes first, the list is cut to 40.  The
   stamp [hh:mm:ss] is the time of the push; the model stamps a line with
   the ordinal of its push, which orders lines as their times of day do
   within one day and tells apart lines the clock would stamp alike. *)
PushLog(items, now, msg) == Take(<< << "[", now, "] " >> \o msg >> \o items, LogCap)

BuildLogsFromHistoryMutNoReverse(st) ==
  Take([i \in 1..Len(st.moveHistory) |-> HistoryLine(st.moveHistory[i])], LogCap)

(* App.buildLogsFromHistory *)
BuildLogsFromHistory(st) ==
  Take(Reverse([i \in 1..Len(st.moveHistory) |-> HistoryLine(st.moveHistory[i])]), LogCap)

(* App.toFriendlyError: the friendly text, or <<>> for null. *)
ToFriendlyError(raw) ==
  LET msg == IF raw = Undefined THEN <<>> ELSE raw IN
  IF msg = <<>> THEN <<>>
  ELSE IF msg[1] = "ack_timeout:"
    THEN << "La jugada esta tardando mas de lo esperado. Intenta de nuevo en unos segundos." >>
  ELSE IF msg = << "socket_connect_timeout" >> \/ msg = << "socket_not_connected" >>
    THEN << "No se pudo conectar al servidor de juego." >>
  ELSE IF msg = << "illegal_move" >>
    THEN << "La jugada no es valida segun el estado actual." >>
  ELSE <<>>

(* The message a failed action shows: errorMessage, then the friendly text. *)
FailureMessage(errorMessage, raw) ==
  LET friendly == ToFriendlyError(raw) IN
  IF friendly # <<>> THEN << errorMessage, ". " >> \o friendly ELSE << errorMessage >>

----------------------------------------------------------------------------
(* Derived values of the App *)

(* App.humanTurn *)
HumanTurn(st) ==
  st # Null /\ st.sideToMove = st.humanSide /\ st.phase = "IN_PROGRESS"

SamePos(a, b) == a.row = b.row /\ a.col = b.col

SelectedTargetsOfMutAll(st, from) ==
  IF st = Null \/ from = Null THEN <<>>
  ELSE [i \in 1..Len(st.legalMoves) |-> st.legalMoves[i].to]

(* App.selectedTargets, as a function of the two signals it reads *)
SelectedTargetsOf(st, from) ==
  IF st = Null \/ from = Null THEN <<>>
  ELSE LET ms == SelectSeq(st.legalMoves, LAMBDA m : SamePos(m.from, from)) IN
       [i \in 1..Len(ms) |-> ms[i].to]

selectedTargets == SelectedTargetsOf(state, selectedFrom)

(* App.pieceAt *)
PieceAt(st, row, col) == IF st = Null THEN NoPiece ELSE st.board[row * BoardSize + col]

IsHumanPieceMutKingNotOwned(piece, humanSide) ==
  IF piece = NoPiece THEN FALSE
  ELSE IF humanSide = "ATTACKER" THEN piece = "A"
  ELSE piece = "D"

(* App.isHumanPiece *)
IsHumanPiece(piece, humanSide) ==
  IF piece = NoPiece THEN FALSE
  ELSE IF humanSide = "ATTACKER" THEN piece = "A"
  ELSE piece = "D" \/ piece = "K"

HasMoveFromMutAlways(st, pos) == st # Null

(* App.hasMoveFrom *)
HasMoveFrom(st, pos) ==
  IF st = Null THEN FALSE
  ELSE \E i \in 1..Len(st.legalMoves) : SamePos(st.legalMoves[i].from, pos)

BotAlreadyOpenedMutAlways(st) == TRUE

BotAlreadyOpenedMutNever(st) == FALSE

(* onState: botAlreadyOpened *)
BotAlreadyOpened(st) == st.humanSide = "DEFENDER" /\ Len(st.moveHistory) > 0

----------------------------------------------------------------------------
(* TablutSocketService: one record per emitAck invocation.
     listening    the connect / connect_error listeners of ensureConnected are on
     connTimer    the 5 s timer of ensureConnected is armed
     connSettles  resolve / reject invocations of ensureConnected's promise
     emits        socket.emit invocations
     ackTimer     the 20 s timer is armed
     ackDue       the request is with the server, which has not answered yet
     settled      the local flag of emitAck
     settles      resolve / reject invocations of emitAck's promise
     outcome      what the caller observes (a promise keeps its first outcome) *)

Pending == << "pending" >>

Resolved == << "resolved" >>

Rejected(msg) == << "rejected" >> \o msg

IsRejected(c) == c.outcome[1] = "rejected"

RawError(c) == Tail(c.outcome)

SettlePromise(c, o) ==
  [c EXCEPT !.settles = @ + 1, !.outcome = IF @ = Pending THEN o ELSE @]

CleanupMutKeepsListeners(c) == [c EXCEPT !.connTimer = FALSE]

(* ensureConnected: cleanup *)
Cleanup(c) == [c EXCEPT !.connTimer = FALSE, !.listening = FALSE]

(* emitAck after ensureConnected returned: arm the timer, emit the request *)
Emit(c) == [c EXCEPT !.emits = @ + 1, !.ackTimer = TRUE, !.ackDue = TRUE]

(* ensureConnected: onConnect, then the rest of emitAck *)
OnConnect(c) == Emit([Cleanup(c) EXCEPT !.connSettles = @ + 1])

(* ensureConnected: onError or the timer, then the catch of emitAck;
   err is the message of the error, or Undefined *)
ConnectFailed(c, err) ==
  SettlePromise([Cleanup(c) EXCEPT !.connSettles = @ + 1],
                Rejected(Coalesce(err, << "socket_not_connected" >>)))

AckCallbackMutNoGuard(c, resp) ==
  SettlePromise([c EXCEPT !.settled = TRUE, !.ackTimer = FALSE, !.ackDue = FALSE],
                IF resp.ok THEN Resolved ELSE Rejected(Coalesce(resp.error, << "error" >>)))

(* emitAck: the acknowledgment callback *)
AckCallback(c, resp) ==
  IF c.settled THEN [c EXCEPT !.ackDue = FALSE]
  ELSE SettlePromise([c EXCEPT !.settled = TRUE, !.ackTimer = FALSE, !.ackDue = FALSE],
                     IF resp.ok THEN Resolved ELSE Rejected(Coalesce(resp.error, << "error" >>)))

(* emitAck: the timer callback *)
AckTimerFired(c) ==
  IF c.settled THEN [c EXCEPT !.ackTimer = FALSE]
  ELSE SettlePromise([c EXCEPT !.settled = TRUE, !.ackTimer = FALSE],
                     Rejected(<< "ack_timeout:", c.event >>))

(* A call as emitAck creates it, waiting for the connection *)
NewCall(event, payload, botStarts) ==
  [event |-> event, payload |-> payload, botStarts |-> botStarts,
   listening |-> TRUE, connTimer |-> TRUE, connSettles |-> 0,
   emits |-> 0, ackTimer |-> FALSE, ackDue |-> FALSE,
   settled |-> FALSE, settles |-> 0, outcome |-> Pending]

(* emitAck up to its first suspension: ensureConnected returns at once when
   the socket is connected, and the request is emitted before any other task. *)
EmitAck(event, payload, botStarts) ==
  LET c == NewCall(event, payload, botStarts) IN
  IF connected THEN Emit([c EXCEPT !.listening = FALSE, !.connTimer = FALSE]) ELSE c

(* Nothing can happen to the call any more *)
Dead(c) == ~c.listening /\ ~c.connTimer /\ ~c.ackTimer /\ ~c.ackDue

Live(cs) == SelectSeq(cs, LAMBDA c : ~Dead(c))

(* What the server may answer *)
AckSnapshots == { s \in Snapshots : s.phase = "IN_PROGRESS" }

Responses ==
  { [ok |-> TRUE, data |-> s, error |-> Undefined] : s \in AckSnapshots }
  \cup
  { [ok |-> FALSE, data |-> Null, error |-> e] :
      e \in { << "illegal_move" >>, << "game_not_found" >>, Undefined } }

ConnectErrors == { << "websocket error" >>, Undefined }

----------------------------------------------------------------------------
(* The continuations of the App's awaits, on the signals they write *)

Signals ==
  [message |-> message, loading |-> loading, setupSubmitting |-> setupSubmitting,
   pendingNewGameWithBotOpening |-> pendingNewGameWithBotOpening, setupOpen |-> setupOpen]

ErrorMessageOf(event) ==
  CASE event = "join" -> "No se pudo cargar la partida"
    [] event = "game:change:diff" -> "No se pudo cambiar dificultad"
    [] event = "move:play" -> "No se pudo jugar el movimiento"
    [] event = "game:new" -> "No se pudo crear la partida"

RunActionCatchMutKeepsLoading(errorMessage, raw, F) ==
  [F EXCEPT !.message = FailureMessage(errorMessage, raw)]

(* runAction: catch *)
RunActionCatch(errorMessage, raw, F) ==
  [F EXCEPT !.message = FailureMessage(errorMessage, raw), !.loading = FALSE]

(* startNewGame: after the await *)
StartNewGameResolved(botStarts, F) ==
  IF ~botStarts THEN [F EXCEPT !.loading = FALSE, !.setupSubmitting = FALSE] ELSE F

(* startNewGame: catch *)
StartNewGameCatch(raw, F) ==
  [F EXCEPT !.message = FailureMessage(ErrorMessageOf("game:new"), raw),
            !.pendingNewGameWithBotOpening = FALSE,
            !.loading = FALSE, !.setupSubmitting = FALSE, !.setupOpen = TRUE]

(* The caller's continuation for a call whose promise has an outcome *)
Continue(c, F) ==
  IF c.event = "game:new"
  THEN IF IsRejected(c) THEN StartNewGameCatch(RawError(c), F)
       ELSE StartNewGameResolved(c.botStarts, F)
  ELSE IF IsRejected(c) THEN RunActionCatch(ErrorMessageOf(c.event), RawError(c), F)
       ELSE F

RECURSIVE ContinueAll(_, _)
ContinueAll(cs, F) ==
  IF cs = <<>> THEN F ELSE ContinueAll(Tail(cs), Continue(Head(cs), F))

(* Calls rejected by one connect_error event: the catch of startNewGame is
   one await nearer to the rejection than the catch of runAction, so the
   new-game continuations run first; otherwise in the order of the calls. *)
ContinuationOrder(cs) ==
  SelectSeq(cs, LAMBDA c : c.event = "game:new") \o
  SelectSeq(cs, LAMBDA c : c.event # "game:new")

SetSignals(F) ==
  /\ message' = F.message
  /\ loading' = F.loading
  /\ setupSubmitting' = F.setupSubmitting
  /\ pendingNewGameWithBotOpening' = F.pendingNewGameWithBotOpening
  /\ setupOpen' = F.setupOpen

(* The record of the handler that ran: its name, the calls it touched as it
   left them, and what it found: pendingNewGameWithBotOpening, whether a
   square was selected and, for a state push, whether it repeats the push
   before it and whether it is of the game already held. *)
RanState(st) ==
  [ev |-> "state", calls |-> <<>>, pend |-> pendingNewGameWithBotOpening,
   hadSel |-> selectedFrom # Null, dup |-> last.ev = "state" /\ state = st,
   sameGame |-> currentStateGameId = st.id]

(* A call as a socket event or a timer left it; the payload went out with
   the request and is not kept. *)
Left(c) == [c EXCEPT !.payload = Null]

Ran(ev, touched) ==
  [ev |-> ev, calls |-> touched, pend |-> pendingNewGameWithBotOpening,
   hadSel |-> selectedFrom # Null, dup |-> FALSE, sameGame |-> FALSE]

----------------------------------------------------------------------------
(* The state after construction: the constructor subscribes and runs
   bootstrapGame up to its first suspension. *)

(* String.prototype.trim on the identifiers of the model *)
Blank == " "

Padded(id) == IF id = "g1" THEN " g1 " ELSE id

Trim(s) ==
  IF s = Blank THEN NoId
  ELSE IF s = Padded("g1") THEN "g1"
  ELSE s

(* readIdFromUrl: the trimmed parameter g, or none *)
ReadIdFromUrl(raw) == IF raw # NoId /\ Trim(raw) # NoId THEN Trim(raw) ELSE NoId

(* writeIdToUrl *)
WriteIdToUrl(raw, id) == id

(* readGameIdFromLocalStorage: the stored value as it is unless it is
   blank, or none when reading throws *)
ReadGameIdFromLocalStorage(raw, readable) ==
  IF ~readable THEN NoId
  ELSE IF raw # NoId /\ Trim(raw) # NoId THEN raw ELSE NoId

(* writeGameIdToLocalStorage: a failing write is ignored *)
WriteGameIdToLocalStorage(raw, id, writable) == IF writable THEN id ELSE raw

PersistedUrlIds == {NoId, "g1"}

PersistedLsIds == {NoId, "g2"}

BootstrapGameIdMutStorageFirst(fromUrl, fromStorage) ==
  IF fromStorage # NoId THEN fromStorage ELSE fromUrl

(* bootstrapGame: the identifier to join, the URL before the local key *)
BootstrapGameId(fromUrl, fromStorage) == IF fromUrl # NoId THEN fromUrl ELSE fromStorage

Init ==
  /\ urlId \in PersistedUrlIds
  /\ lsId \in PersistedLsIds
  /\ connected = FALSE
  /\ state = Null
  /\ currentStateGameId = NoId
  /\ logs = <<>>
  /\ setupSubmitting = FALSE
  /\ setupHumanSide = "DEFENDER"
  /\ setupDifficulty = 4
  /\ selectedFrom = Null
  /\ pendingNewGameWithBotOpening = FALSE
  /\ clock = 0
  /\ LET gameId == BootstrapGameId(ReadIdFromUrl(urlId),
                                    ReadGameIdFromLocalStorage(lsId, TRUE)) IN
     IF gameId # NoId
     THEN /\ loading = TRUE
          /\ message = << "Cargando partida..." >>
          /\ setupOpen = FALSE
          /\ calls = << EmitAck("join", [gameId |-> gameId], FALSE) >>
     ELSE /\ loading = FALSE
          /\ message = <<>>
          /\ setupOpen = TRUE
          /\ calls = <<>>
  /\ last = [ev |-> "constructor", calls |-> calls, pend |-> FALSE,
             hadSel |-> FALSE, dup |-> FALSE, sameGame |-> FALSE]

(* A page load: the App and its service are constructed anew, on a new
   socket, and bootstrapGame runs up to its first suspension; raw is the
   parameter g of the URL being loaded, readable tells whether
   localStorage.getItem succeeds.  What was persisted is all that is kept. *)
PageLoad(raw, readable) ==
  LET gameId == BootstrapGameId(ReadIdFromUrl(raw),
                                ReadGameIdFromLocalStorage(lsId, readable)) IN
  /\ urlId' = raw
  /\ connected' = FALSE
  /\ state' = Null
  /\ currentStateGameId' = NoId
  /\ logs' = <<>>
  /\ setupSubmitting' = FALSE
  /\ setupHumanSide' = "DEFENDER"
  /\ setupDifficulty' = 4
  /\ selectedFrom' = Null
  /\ pendingNewGameWithBotOpening' = FALSE
  /\ IF gameId # NoId
     THEN /\ loading' = TRUE
          /\ message' = << "Cargando partida..." >>
          /\ setupOpen' = FALSE
          /\ calls' = << NewCall("join", [gameId |-> gameId], FALSE) >>
     ELSE /\ loading' = FALSE
          /\ message' = <<>>
          /\ setupOpen' = TRUE
          /\ calls' = <<>>
  /\ last' = [ev |-> "constructor", calls |-> calls', pend |-> FALSE,
              hadSel |-> FALSE, dup |-> FALSE, sameGame |-> FALSE]
  /\ UNCHANGED <<lsId, clock>>

----------------------------------------------------------------------------
(* Push notifications *)

LogsAfterStateMutAppendsLastMove(gameChanged, st, items) ==
  IF gameChanged THEN BuildLogsFromHistory(st)
  ELSE IF Len(st.moveHistory) > 0
       THEN Take(<< HistoryLine(st.moveHistory[Len(st.moveHistory)]) >> \o items, LogCap)
       ELSE items

(* onState: the log is rebuilt when the game changed *)
LogsAfterState(gameChanged, st, items) ==
  IF gameChanged THEN BuildLogsFromHistory(st) ELSE items

SelectedFromAfterStateMutOnGameChange(gameChanged, from) ==
  IF gameChanged THEN Null ELSE from

(* onState: selectedFrom.set(null) *)
SelectedFromAfterState(gameChanged, from) == Null

StateAfterStateMutPatchesPosition(held, st) ==
  IF held = Null THEN st
  ELSE [held EXCEPT !.version = st.version, !.phase = st.phase,
                    !.sideToMove = st.sideToMove, !.board = st.board,
                    !.legalMoves = st.legalMoves, !.moveHistory = st.moveHistory]

(* onState: state.set(st) *)
StateAfterState(held, st) == st

(* onState subscriber; writable tells whether localStorage.setItem succeeds:
   writeGameIdToLocalStorage ignores its failure. *)
OnStateStoring(st, writable) ==
  LET gameChanged == currentStateGameId # st.id IN
  /\ currentStateGameId' = st.id
  /\ state' = StateAfterState(state, st)
  /\ message' = <<>>
  /\ selectedFrom' = SelectedFromAfterState(gameChanged, selectedFrom)
  /\ urlId' = WriteIdToUrl(urlId, st.id)
  /\ lsId' = WriteGameIdToLocalStorage(lsId, st.id, writable)
  /\ logs' = LogsAfterState(gameChanged, st, logs)
  /\ IF pendingNewGameWithBotOpening
     THEN IF BotAlreadyOpened(st)
          THEN /\ pendingNewGameWithBotOpening' = FALSE
               /\ loading' = FALSE
               /\ setupSubmitting' = FALSE
          ELSE /\ loading' = TRUE
               /\ UNCHANGED <<pendingNewGameWithBotOpening, setupSubmitting>>
     ELSE /\ loading' = FALSE
          /\ setupSubmitting' = FALSE
          /\ UNCHANGED pendingNewGameWithBotOpening
  /\ setupOpen' = FALSE
  /\ last' = RanState(st)
  /\ UNCHANGED <<setupHumanSide, setupDifficulty, connected, calls, clock>>

(* onState subscriber with a working localStorage *)
OnState(st) == OnStateStoring(st, TRUE)

MoveResults ==
  { [side |-> "ATTACKER", from |-> Pos(3, 4), to |-> Pos(4, 4), captures |-> <<>>],
    [side |-> "DEFENDER", from |-> Pos(5, 4), to |-> Pos(5, 5), captures |-> << Pos(5, 6) >>] }

TurnNotes == { << "Turno del defensor" >> }

(* The handlers that only append a log line *)
AppendLog(ev, msg) ==
  /\ clock < MaxPush
  /\ clock' = clock + 1
  /\ logs' = PushLog(logs, clock + 1, msg)
  /\ last' = Ran(ev, <<>>)
  /\ UNCHANGED <<state, currentStateGameId, loading, setupOpen, setupSubmitting,
                 setupHumanSide, setupDifficulty, selectedFrom,
                 pendingNewGameWithBotOpening, urlId, lsId, connected, calls>>

(* onMoveResult subscriber *)
OnMoveResult(mv) ==
  /\ AppendLog("move:result", MoveResultLine(mv))
  /\ UNCHANGED message

(* onTurnNote subscriber *)
OnTurnNote(note) ==
  /\ AppendLog("turn:note", note)
  /\ UNCHANGED message

(* onGameOver subscriber *)
OnGameOver(winnerSide) ==
  /\ AppendLog("game:over", GameOverLine(winnerSide))
  /\ message' = GameOverMessage(winnerSide)

(* onBotThinking subscriber *)
OnBotThinking(active) ==
  /\ IF pendingNewGameWithBotOpening
     THEN /\ loading' = active
          /\ IF ~active
             THEN /\ pendingNewGameWithBotOpening' = FALSE
                  /\ setupSubmitting' = FALSE
             ELSE UNCHANGED <<pendingNewGameWithBotOpening, setupSubmitting>>
     ELSE UNCHANGED <<loading, pendingNewGameWithBotOpening, setupSubmitting>>
  /\ last' = Ran(IF active THEN "bot:thinking:on" ELSE "bot:thinking:off", <<>>)
  /\ UNCHANGED <<state, currentStateGameId, message, logs, setupOpen, setupHumanSide,
                 setupDifficulty, selectedFrom, urlId, lsId, connected, calls, clock>>

----------------------------------------------------------------------------
(* User operations *)

StartNewGameMutNoFlags ==
  LET humanSide == setupHumanSide
      botStarts == humanSide = "DEFENDER" IN
  /\ Len(calls) < MaxCalls
  /\ pendingNewGameWithBotOpening' = FALSE
  /\ setupSubmitting' = FALSE
  /\ loading' = FALSE
  /\ message' = <<>>
  /\ logs' = <<>>
  /\ selectedFrom' = Null
  /\ state' = Null
  /\ currentStateGameId' = NoId
  /\ setupOpen' = FALSE
  /\ calls' = Append(calls, EmitAck("game:new",
                 [humanSide |-> humanSide, difficulty |-> setupDifficulty], botStarts))
  /\ last' = Ran("startNewGame", << calls'[Len(calls')] >>)
  /\ UNCHANGED <<setupHumanSide, setupDifficulty, urlId, lsId, connected, clock>>

(* startNewGame up to its await *)
StartNewGame ==
  LET humanSide == setupHumanSide
      botStarts == humanSide = "DEFENDER" IN
  /\ Len(calls) < MaxCalls
  /\ pendingNewGameWithBotOpening' = botStarts
  /\ setupSubmitting' = botStarts
  /\ loading' = botStarts
  /\ message' = <<>>
  /\ logs' = <<>>
  /\ selectedFrom' = Null
  /\ state' = Null
  /\ currentStateGameId' = NoId
  /\ setupOpen' = FALSE
  /\ calls' = Append(calls, EmitAck("game:new",
                 [humanSide |-> humanSide, difficulty |-> setupDifficulty], botStarts))
  /\ last' = Ran("startNewGame", << calls'[Len(calls')] >>)
  /\ UNCHANGED <<setupHumanSide, setupDifficulty, urlId, lsId, connected, clock>>

(* onNewGameClick *)
OnNewGameClick ==
  /\ setupOpen' = TRUE
  /\ last' = Ran("onNewGameClick", <<>>)
  /\ UNCHANGED <<state, currentStateGameId, loading, message, logs, setupSubmitting,
                 setupHumanSide, setupDifficulty, selectedFrom,
                 pendingNewGameWithBotOpening, urlId, lsId, connected, calls, clock>>

(* onSelectHumanSide *)
OnSelectHumanSide(side) ==
  /\ setupHumanSide' = side
  /\ last' = Ran("onSelectHumanSide", <<>>)
  /\ UNCHANGED <<state, currentStateGameId, loading, message, logs, setupOpen,
                 setupSubmitting, setupDifficulty, selectedFrom,
                 pendingNewGameWithBotOpening, urlId, lsId, connected, calls, clock>>

(* onDifficultyChange up to its await *)
OnDifficultyChange(next) ==
  /\ setupDifficulty' = next
  /\ IF state = Null
     THEN UNCHANGED <<loading, calls>>
     ELSE /\ Len(calls) < MaxCalls
          /\ loading' = TRUE
          /\ calls' = Append(calls, EmitAck("game:change:diff",
                         [gameId |-> state.id, difficulty |-> next], FALSE))
  /\ last' = Ran("onDifficultyChange",
                  IF state = Null THEN <<>> ELSE << calls'[Len(calls')] >>)
  /\ UNCHANGED <<state, currentStateGameId, message, logs, setupOpen, setupSubmitting,
                 setupHumanSide, selectedFrom, pendingNewGameWithBotOpening,
                 urlId, lsId, connected, clock>>

OnCellClickMutKeepsSelection(row, col) ==
  LET st == state
      clicked == Pos(row, col)
      piece == PieceAt(st, row, col)
      from == selectedFrom
      target == \E i \in 1..Len(selectedTargets) : SamePos(selectedTargets[i], clicked) IN
  /\ IF st = Null \/ ~HumanTurn(st)
     THEN UNCHANGED <<selectedFrom, loading, calls>>
     ELSE IF from = Null
     THEN /\ selectedFrom' = IF IsHumanPiece(piece, st.humanSide) /\ HasMoveFrom(st, clicked)
                             THEN clicked ELSE selectedFrom
          /\ UNCHANGED <<loading, calls>>
     ELSE IF SamePos(from, clicked)
     THEN /\ selectedFrom' = Null
          /\ UNCHANGED <<loading, calls>>
     ELSE IF target
     THEN /\ Len(calls) < MaxCalls
          /\ UNCHANGED selectedFrom
          /\ loading' = TRUE
          /\ calls' = Append(calls, EmitAck("move:play",
                         [gameId |-> st.id, from |-> from, to |-> clicked], FALSE))
     ELSE /\ selectedFrom' = IF IsHumanPiece(piece, st.humanSide) /\ HasMoveFrom(st, clicked)
                             THEN clicked ELSE Null
          /\ UNCHANGED <<loading, calls>>
  /\ last' = Ran("onCellClick",
                  IF Len(calls') > Len(calls) THEN << calls'[Len(calls')] >> ELSE <<>>)
  /\ UNCHANGED <<state, currentStateGameId, message, logs, setupOpen, setupSubmitting,
                 setupHumanSide, setupDifficulty, pendingNewGameWithBotOpening,
                 urlId, lsId, connected, clock>>

(* onCellClick up to its await *)
OnCellClick(row, col) ==
  LET st == state
      clicked == Pos(row, col)
      piece == PieceAt(st, row, col)
      from == selectedFrom
      target == \E i \in 1..Len(selectedTargets) : SamePos(selectedTargets[i], clicked) IN
  /\ IF st = Null \/ ~HumanTurn(st)
     THEN UNCHANGED <<selectedFrom, loading, calls>>
     ELSE IF from = Null
     THEN /\ selectedFrom' = IF IsHumanPiece(piece, st.humanSide) /\ HasMoveFrom(st, clicked)
                             THEN clicked ELSE selectedFrom
          /\ UNCHANGED <<loading, calls>>
     ELSE IF SamePos(from, clicked)
     THEN /\ selectedFrom' = Null
          /\ UNCHANGED <<loading, calls>>
     ELSE IF target
     THEN /\ Len(calls) < MaxCalls
          /\ selectedFrom' = Null
          /\ loading' = TRUE
          /\ calls' = Append(calls, EmitAck("move:play",
                         [gameId |-> st.id, from |-> from, to |-> clicked], FALSE))
     ELSE /\ selectedFrom' = IF IsHumanPiece(piece, st.humanSide) /\ HasMoveFrom(st, clicked)
                             THEN clicked ELSE Null
          /\ UNCHANGED <<loading, calls>>
  /\ last' = Ran("onCellClick",
                  IF Len(calls') > Len(calls) THEN << calls'[Len(calls')] >> ELSE <<>>)
  /\ UNCHANGED <<state, currentStateGameId, message, logs, setupOpen, setupSubmitting,
                 setupHumanSide, setupDifficulty, pendingNewGameWithBotOpening,
                 urlId, lsId, connected, clock>>

----------------------------------------------------------------------------
(* Socket events and timers *)

ListeningCalls == SelectSeq(calls, LAMBDA c : c.listening)

(* the socket's connect event: every waiting ensureConnected resolves and its
   emitAck sends the request *)
SocketConnect ==
  LET after == [i \in 1..Len(calls) |->
                  IF calls[i].listening THEN OnConnect(calls[i]) ELSE calls[i]] IN
  /\ ~connected
  /\ connected' = TRUE
  /\ calls' = Live(after)
  /\ last' = Ran("connect",
                 [k \in 1..Len(ListeningCalls) |-> Left(OnConnect(ListeningCalls[k]))])
  /\ UNCHANGED <<appVars, clock>>

(* the socket's connect_error event: every waiting ensureConnected rejects,
   and the callers' catch blocks run *)
SocketConnectError(err) ==
  LET after == [i \in 1..Len(calls) |->
                  IF calls[i].listening THEN ConnectFailed(calls[i], err) ELSE calls[i]]
      failed == [k \in 1..Len(ListeningCalls) |-> ConnectFailed(ListeningCalls[k], err)] IN
  /\ ~connected
  /\ ListeningCalls # <<>>
  /\ calls' = Live(after)
  /\ SetSignals(ContinueAll(ContinuationOrder(failed), Signals))
  /\ last' = Ran("connect_error", [k \in 1..Len(failed) |-> Left(failed[k])])
  /\ UNCHANGED <<state, currentStateGameId, logs, setupHumanSide, setupDifficulty,
                 selectedFrom, urlId, lsId, connected, clock>>

(* the socket drops the connection *)
SocketDisconnect ==
  /\ connected
  /\ connected' = FALSE
  /\ last' = Ran("disconnect", <<>>)
  /\ UNCHANGED <<appVars, calls, clock>>

(* A task left call i as c: if its promise got its outcome in this task,
   the caller's continuation runs. *)
SettleOne(ev, i, c) ==
  /\ calls' = Live([calls EXCEPT ![i] = c])
  /\ IF calls[i].outcome = Pending /\ c.outcome # Pending
     THEN SetSignals(Continue(c, Signals))
     ELSE UNCHANGED <<message, loading, setupSubmitting, pendingNewGameWithBotOpening,
                      setupOpen>>
  /\ last' = Ran(ev, << Left(c) >>)
  /\ UNCHANGED <<state, currentStateGameId, logs, setupHumanSide, setupDifficulty,
                 selectedFrom, urlId, lsId, connected, clock>>

(* ensureConnected: the 5 s timer fires *)
ConnectTimer(i) ==
  /\ calls[i].connTimer
  /\ SettleOne("connect_timeout", i, ConnectFailed(calls[i], << "socket_connect_timeout" >>))

(* the server's acknowledgment arrives *)
Ack(i, resp) ==
  /\ calls[i].ackDue
  /\ SettleOne(IF calls[i].outcome # Pending THEN "late_ack"
               ELSE IF resp.ok THEN "ack_ok" ELSE "ack_error",
               i, AckCallback(calls[i], resp))

(* emitAck: the 20 s timer fires *)
AckTimer(i) ==
  /\ calls[i].ackTimer
  /\ SettleOne("ack_timeout", i, AckTimerFired(calls[i]))

----------------------------------------------------------------------------
(* The program: every handler, with every input of the model *)

(* The squares a click may land on: every piece, every destination of a
   legal move, and one empty square that is neither. *)
Squares ==
  { p[1] : p \in Pieces }
  \cup { LegalMovesOf(side)[i].to : side \in Sides, i \in 1..3 }
  \cup { Pos(1, 1) }

StatePush(pool) == \E st \in pool : OnState(st)

StatePushStorageDenied(pool) == \E st \in pool : OnStateStoring(st, FALSE)

(* The values of the parameter g a page may be opened with *)
RawUrlIds == {NoId, Blank, Padded("g1"), "g2"}

Reload == \E readable \in BOOLEAN : PageLoad(urlId, readable)

OpenLink == \E raw \in RawUrlIds, readable \in BOOLEAN : PageLoad(raw, readable)

MoveResultPush == \E mv \in MoveResults : OnMoveResult(mv)

TurnNotePush == \E note \in TurnNotes : OnTurnNote(note)

GameOverPush == \E w \in Sides : OnGameOver(w)

BotThinkingPush == \E active \in BOOLEAN : OnBotThinking(active)

SelectHumanSide == \E side \in Sides : OnSelectHumanSide(side)

DifficultyChange(levels) == \E next \in levels : OnDifficultyChange(next)

CellClick(squares) == \E sq \in squares : OnCellClick(sq.row, sq.col)

ConnectError == \E err \in ConnectErrors : SocketConnectError(err)

ConnectTimeout == \E i \in 1..Len(calls) : ConnectTimer(i)

Acknowledge(responses) == \E i \in 1..Len(calls), resp \in responses : Ack(i, resp)

AckTimeout == \E i \in 1..Len(calls) : AckTimer(i)

AllSquares == { Pos(r, c) : r \in 0..(BoardSize - 1), c \in 0..(BoardSize - 1) }

Next ==
  \/ Reload
  \/ OpenLink
  \/ StatePush(Snapshots)
  \/ StatePushStorageDenied(Snapshots)
  \/ MoveResultPush
  \/ TurnNotePush
  \/ GameOverPush
  \/ BotThinkingPush
  \/ StartNewGame
  \/ OnNewGameClick
  \/ SelectHumanSide
  \/ DifficultyChange(Difficulties)
  \/ CellClick(AllSquares)
  \/ SocketConnect
  \/ ConnectError
  \/ SocketDisconnect
  \/ ConnectTimeout
  \/ Acknowledge(Responses)
  \/ AckTimeout

Spec == Init /\ [][Next]_vars

----------------------------------------------------------------------------
(* The program under environments that exercise one part of it.  Each keeps
   every handler that part involves and narrows the inputs of the rest. *)

(* Snapshots of one game in progress: before and after the opening move,
   for either human side *)
OpeningSnapshots == { s \in Snapshots : s.id = "g1" /\ s.phase = "IN_PROGRESS" }

(* One acknowledgment of each kind *)
OkResponses == { r \in Responses : r.ok /\ r.data = Snapshot("g2", "ATTACKER", "IN_PROGRESS", 0) }

ErrorResponses == { r \in Responses : ~r.ok }

(* The transport: calls made by new-game requests and the bootstrap join,
   with every socket event, timer and acknowledgment. *)
NextTransport ==
  \/ StartNewGame
  \/ SelectHumanSide
  \/ SocketConnect
  \/ ConnectError
  \/ SocketDisconnect
  \/ ConnectTimeout
  \/ Acknowledge(Responses)
  \/ AckTimeout

SpecTransport == Init /\ [][NextTransport]_vars

(* Starting games: new-game requests of either side, their acknowledgments,
   and the pushes that follow a creation. *)
NextNewGame ==
  \/ StatePush(OpeningSnapshots)
  \/ BotThinkingPush
  \/ StartNewGame
  \/ SelectHumanSide
  \/ SocketConnect
  \/ ConnectError
  \/ Acknowledge(OkResponses \cup ErrorResponses)
  \/ AckTimeout

SpecNewGame == Init /\ [][NextNewGame]_vars

(* Snapshots of one game before its first move, for either human side *)
NewGameSnapshots == { s \in OpeningSnapshots : Len(s.moveHistory) = 0 }

(* Every kind of call (join, game:new, game:change:diff, move:play), each
   resolved, rejected by the server or failed on the connection; the timers
   are exercised by SpecTransport. *)
NextCalls ==
  \/ StatePush(NewGameSnapshots)
  \/ StartNewGame
  \/ SelectHumanSide
  \/ DifficultyChange({2})
  \/ CellClick({Pos(3, 4), Pos(4, 4)})
  \/ SocketConnect
  \/ ConnectError
  \/ Acknowledge(OkResponses \cup { r \in ErrorResponses : r.error # << "game_not_found" >> })

SpecCalls == Init /\ [][NextCalls]_vars

(* Snapshots of both games with every length of history *)
LogSnapshots == { s \in Snapshots : s.humanSide = "ATTACKER" /\ Len(s.moveHistory) # 2 }

(* Snapshots of both games, either human side, in progress or finished *)
ShortSnapshots == { s \in Snapshots : Len(s.moveHistory) # LongGame }

(* The log: every push that writes it, and new games, which clear it. *)
NextLog ==
  \/ StatePush(LogSnapshots)
  \/ MoveResultPush
  \/ TurnNotePush
  \/ GameOverPush
  \/ StartNewGame

SpecLog == Init /\ [][NextLog]_vars

(* Selection: clicks on the board between state pushes and new games. *)
NextSelect ==
  \/ StatePush(ShortSnapshots)
  \/ CellClick(Squares)
  \/ StartNewGame

SpecSelect == Init /\ [][NextSelect]_vars

(* Reconciliation: state, game:over and bot:thinking pushes between new
   games of either side. *)
NextPush ==
  \/ StatePush(ShortSnapshots)
  \/ GameOverPush
  \/ BotThinkingPush
  \/ StartNewGame
  \/ SelectHumanSide

SpecPush == Init /\ [][NextPush]_vars

(* Moves: clicks that select and play, on a socket that connects before or
   after the move is played, with the acknowledgments and pushes that
   follow. *)
NextMove ==
  \/ StatePush(OpeningSnapshots)
  \/ CellClick(Squares)
  \/ SocketConnect
  \/ Acknowledge(OkResponses)

SpecMove == Init /\ [][NextMove]_vars

(* Snapshots of both games before the first move, the human attacking *)
ResumeSnapshots ==
  { s \in Snapshots : s.humanSide = "ATTACKER" /\ Len(s.moveHistory) = 0 }

(* Resumption: pushes that persist the identifier, with a localStorage that
   works or fails, between page loads and new games. *)
NextReload ==
  \/ Reload
  \/ OpenLink
  \/ StatePush(ResumeSnapshots)
  \/ StatePushStorageDenied(ResumeSnapshots)
  \/ StartNewGame
  \/ SocketConnect
  \/ Acknowledge(OkResponses)

SpecReload == Init /\ [][NextReload]_vars

----------------------------------------------------------------------------
(* Properties *)

AllCalls == calls \o last.calls

SettlingEvents == {"ack_ok", "ack_error", "ack_timeout", "connect_timeout", "connect_error"}

(* A bot-opens game whose opening move is on the board *)
BotHasOpened(st) ==
  st # Null /\ st.humanSide = "DEFENDER" /\ Len(st.moveHistory) > 0

(* C1: pendingNewGameWithBotOpening is false right after a state push whose
   snapshot has humanSide DEFENDER and a non-empty history, and right after
   bot:thinking{active:false}, whatever came before; and it is never true
   while the held snapshot is IN_PROGRESS with humanSide DEFENDER and a
   non-empty history. *)
C1_PendingConverges ==
  /\ (last.ev = "state" /\ BotHasOpened(state)) => ~pendingNewGameWithBotOpening
  /\ last.ev = "bot:thinking:off" => ~pendingNewGameWithBotOpening
  /\ (BotHasOpened(state) /\ state.phase = "IN_PROGRESS") => ~pendingNewGameWithBotOpening

(* C1 witness: a push showing the bot's opening move found the flag set and
   cleared it while the game:new request was still unacknowledged. *)
C1_Witness ==
  /\ last.ev = "state"
  /\ last.pend
  /\ BotHasOpened(state)
  /\ ~pendingNewGameWithBotOpening
  /\ \E i \in 1..Len(calls) : calls[i].event = "game:new" /\ calls[i].botStarts /\ calls[i].ackDue

(* C5: a call emits one request once connected and its promise is settled
   once, by the acknowledgment or by the 20 s timer, whichever is first; an
   acknowledgment after the timer leaves the ack_timeout outcome and every
   signal of the App as they were. *)
C5_State ==
  /\ \A k \in 1..Len(AllCalls) :
       LET c == AllCalls[k] IN
       /\ c.emits <= 1
       /\ c.settles <= 1
       /\ (c.outcome # Pending) <=> (c.settles = 1)
       /\ (c.ackDue \/ c.ackTimer \/ c.settled) => c.emits = 1
       /\ c.settled => ~c.ackTimer
  /\ last.ev = "ack_ok" => last.calls[1].outcome = Resolved
  /\ last.ev = "ack_error" =>
       last.calls[1].outcome \in { Rejected(<< "illegal_move" >>),
                                   Rejected(<< "game_not_found" >>), Rejected(<< "error" >>) }
  /\ last.ev \in {"ack_timeout", "late_ack"} =>
       last.calls[1].outcome = Rejected(<< "ack_timeout:", last.calls[1].event >>)

C5_SettlesOnce ==
  [][ /\ C5_State'
      /\ last'.ev = "late_ack" => UNCHANGED appVars ]_vars

(* C5 witness: the acknowledgment came after the timer had rejected the call. *)
C5_Witness ==
  /\ last.ev = "late_ack"
  /\ last.calls[1].settles = 1
  /\ last.calls[1].emits = 1

(* C6: ensureConnected settles once, with the first of connect,
   connect_error and the 5 s timer; a call made while connected emits at
   once; a call whose connection failed is rejected with the underlying
   reason (socket_not_connected when the error has none), has emitted
   nothing and has nothing left that could emit later. *)
C6_EnsureConnected ==
  /\ \A k \in 1..Len(AllCalls) :
       LET c == AllCalls[k] IN
       /\ c.connSettles <= 1
       /\ c.emits = 1 => (c.connSettles = 1 \/ ~c.listening)
       /\ c.listening <=> c.connTimer
       /\ c.listening => (c.connSettles = 0 /\ c.emits = 0 /\ c.outcome = Pending)
  /\ last.ev \in {"connect_error", "connect_timeout"} =>
       \A k \in 1..Len(last.calls) :
         LET c == last.calls[k] IN
         /\ c.connSettles = 1 /\ c.settles = 1 /\ c.emits = 0 /\ Dead(c)
         /\ c.outcome \in
              IF last.ev = "connect_timeout"
              THEN { Rejected(<< "socket_connect_timeout" >>) }
              ELSE { Rejected(<< "websocket error" >>), Rejected(<< "socket_not_connected" >>) }
  /\ last.ev = "connect" =>
       \A k \in 1..Len(last.calls) :
         last.calls[k].connSettles = 1 /\ last.calls[k].emits = 1
                                      /\ last.calls[k].outcome = Pending
  /\ (last.ev = "startNewGame" /\ connected) =>
       last.calls[1].emits = 1 /\ last.calls[1].connSettles = 0 /\ ~last.calls[1].listening

(* C6 witness: the socket connected after a call had already failed on its
   connect timer, and no request of that call followed. *)
C6_Witness ==
  /\ last.ev = "connect"
  /\ last.calls = <<>>
  /\ calls = <<>>
  /\ message = << "No se pudo cargar la partida", ". ",
                  "No se pudo conectar al servidor de juego." >>

(* C7: the log never holds more than 40 lines and is newest first: the
   lines pushed by notifications come first, latest stamp first, and below
   them the lines of the move history the log was rebuilt from, latest turn
   first. *)
C7_LogNewestFirst ==
  /\ Len(logs) <= 40
  /\ \A i, j \in 1..Len(logs) :
       i < j =>
         /\ (logs[i][1] = "[" /\ logs[j][1] = "[") => logs[i][2] > logs[j][2]
         /\ (logs[i][1] = "#" /\ logs[j][1] = "#") => logs[i][2] > logs[j][2]
         /\ ~(logs[i][1] = "#" /\ logs[j][1] = "[")

(* C7 witness: two notifications pushed on top of a rebuilt history longer
   than the log holds. *)
C7_Witness ==
  /\ Len(logs) = 40
  /\ logs[1][1] = "[" /\ logs[2][1] = "["
  /\ logs[3][1] = "#" /\ logs[3][2] = LongGame

(* C2, as claimed: a call that resolves with a snapshot replaces the held
   snapshot by it. *)
C2_Original ==
  [][ \A i \in 1..Len(calls), resp \in Responses :
        (Ack(i, resp) /\ resp.ok /\ calls[i].outcome = Pending) => state' = resp.data ]_vars

(* C2, amended: the held snapshot is replaced by the payload of a state
   push, whole; no outcome of a call changes it; the only other change is
   startNewGame clearing it. *)
C2_StateOnlyFromPush ==
  [][ /\ \A st \in Snapshots : OnState(st) => state' = st
      /\ last'.ev \in SettlingEvents \cup {"late_ack", "connect"} => state' = state
      /\ state' # state =>
           \/ last'.ev = "state"
           \/ last'.ev = "startNewGame" /\ state' = Null ]_vars

(* C2 witness: a move:play call resolved with a snapshot of game g2 and the
   held snapshot is still the one of game g1. *)
C2_Witness ==
  /\ last.ev = "ack_ok"
  /\ last.calls[1].event = "move:play"
  /\ state # Null
  /\ state.id = "g1"

(* The call of a settling event that is a bot-opens game:new that resolved *)
ResolvedBotOpening(c) == c.event = "game:new" /\ c.botStarts /\ c.outcome = Resolved

(* C3, as claimed: once the outcome of a call has been handled, loading and
   setupSubmitting are false, except after a resolved bot-opens game:new. *)
C3_Original ==
  (last.ev \in SettlingEvents /\ \A k \in 1..Len(last.calls) : ~ResolvedBotOpening(last.calls[k]))
    => (~loading /\ ~setupSubmitting)

(* C3, amended: a rejected call leaves loading false; a rejected game:new
   and a resolved human-opens game:new leave loading and setupSubmitting
   false; a resolved join, game:change:diff or move:play, like a resolved
   bot-opens game:new, changes neither. *)
C3_FlagsAfterOutcome ==
  [][ LET cs == last'.calls IN
      last'.ev \in SettlingEvents =>
        /\ (\E k \in 1..Len(cs) : IsRejected(cs[k])) => ~loading'
        /\ (\E k \in 1..Len(cs) :
              cs[k].event = "game:new" /\ (IsRejected(cs[k]) \/ ~cs[k].botStarts))
             => (~loading' /\ ~setupSubmitting')
        /\ (\A k \in 1..Len(cs) :
              cs[k].outcome = Resolved /\ (cs[k].event # "game:new" \/ cs[k].botStarts))
             => UNCHANGED <<loading, setupSubmitting>> ]_vars

(* C3 witness: the bootstrap join resolved, no push has come, and loading is
   still on. *)
C3_Witness ==
  /\ last.ev = "ack_ok"
  /\ last.calls[1].event = "join"
  /\ state = Null
  /\ loading

(* C4, as claimed: after any failed call loading and setupSubmitting are
   false, and after a failed game:new pendingNewGameWithBotOpening is false
   and the setup prompt is open. *)
C4_Original ==
  (last.ev \in SettlingEvents /\ \E k \in 1..Len(last.calls) : IsRejected(last.calls[k]))
    => /\ ~loading
       /\ ~setupSubmitting
       /\ (\E k \in 1..Len(last.calls) :
             last.calls[k].event = "game:new" /\ IsRejected(last.calls[k]))
            => (~pendingNewGameWithBotOpening /\ setupOpen)

(* C8: right after a state push selectedFrom is null, whether or not the
   snapshot is of the game already held and whatever was selected before. *)
C8_SelectionCleared ==
  last.ev = "state" => selectedFrom = Null

(* C8 witness: a push of the game already held found a square selected and
   cleared it. *)
C8_Witness ==
  /\ last.ev = "state"
  /\ last.hadSel
  /\ last.sameGame
  /\ selectedFrom = Null

(* C9: every element of selectedTargets is the destination of a legal move
   of the held snapshot that starts at selectedFrom, and selectedTargets is
   empty when no square is selected or no snapshot is held. *)
C9_TargetsOfOrigin ==
  /\ \A i \in 1..Len(selectedTargets) :
       /\ state # Null
       /\ selectedFrom # Null
       /\ \E k \in 1..Len(state.legalMoves) :
            /\ state.legalMoves[k].to = selectedTargets[i]
            /\ state.legalMoves[k].from = selectedFrom
  /\ (selectedFrom = Null \/ state = Null) => selectedTargets = <<>>

(* C9 witness: a piece is selected that has two of the three legal moves of
   the snapshot. *)
C9_Witness ==
  /\ state # Null
  /\ selectedFrom # Null
  /\ Len(state.legalMoves) = 3
  /\ Len(selectedTargets) = 2

(* C10: a state push that repeats the snapshot of the state push right
   before it leaves logs, loading, setupSubmitting,
   pendingNewGameWithBotOpening and the held snapshot as the first left
   them. *)
C10_RepeatedPush ==
  [][ (last'.ev = "state" /\ last'.dup) =>
        UNCHANGED <<logs, loading, setupSubmitting, pendingNewGameWithBotOpening, state>> ]_vars

(* C10 witness: a snapshot with one move played was pushed twice while a
   bot-opens game was awaited; the log holds its line once and loading is
   still on. *)
C10_Witness ==
  /\ last.ev = "state"
  /\ last.dup
  /\ last.pend
  /\ pendingNewGameWithBotOpening
  /\ loading
  /\ Len(state.moveHistory) = 1
  /\ Len(logs) = 1

(* C11: on the human's turn, with a square selected, a click on the
   destination of a legal move from that square clears selectedFrom and makes
   one move:play call carrying the held snapshot's id, the selected square
   as from and the clicked square as to, all in the click's own task, before
   any acknowledgment or push can be handled; the request is emitted at once
   when connected and no call ever emits twice; the held snapshot, and so
   its board, is as before the click. *)
C11_MoveRequest ==
  [][ /\ \A sq \in Squares :
           ( /\ OnCellClick(sq.row, sq.col)
             /\ state # Null
             /\ state.sideToMove = state.humanSide
             /\ state.phase = "IN_PROGRESS"
             /\ selectedFrom # Null
             /\ \E k \in 1..Len(state.legalMoves) :
                  state.legalMoves[k].from = selectedFrom /\ state.legalMoves[k].to = sq )
           => /\ selectedFrom' = Null
              /\ state' = state
              /\ Len(calls') = Len(calls) + 1
              /\ SubSeq(calls', 1, Len(calls)) = calls
              /\ LET c == calls'[Len(calls')] IN
                   /\ c.event = "move:play"
                   /\ c.payload = [gameId |-> state.id, from |-> selectedFrom, to |-> sq]
                   /\ c.emits = (IF connected THEN 1 ELSE 0)
                   /\ c.outcome = Pending
      /\ \A k \in 1..Len(calls') : calls'[k].emits <= 1 ]_vars

(* C11 witness: a click on a destination has just emitted the move:play
   request of the selected piece, and nothing is selected. *)
C11_Witness ==
  /\ last.ev = "onCellClick"
  /\ last.hadSel
  /\ Len(last.calls) = 1
  /\ last.calls[1].event = "move:play"
  /\ last.calls[1].emits = 1
  /\ last.calls[1].payload.from = Pos(3, 4)
  /\ last.calls[1].payload.to = Pos(4, 4)
  /\ selectedFrom = Null

(* C12: right after startNewGame the three flags
   pendingNewGameWithBotOpening, setupSubmitting and loading are all true
   when the human side is DEFENDER and all false when it is ATTACKER, also
   when the game:new request has not been emitted because the socket is
   still connecting; and a state push that finds the flag set and brings
   humanSide DEFENDER with a history of one move leaves the flag and loading
   false. *)
C12_BotOpeningFlags ==
  /\ last.ev = "startNewGame" =>
       LET c == last.calls[1] IN
       /\ c.event = "game:new"
       /\ c.emits = (IF connected THEN 1 ELSE 0)
       /\ IF c.payload.humanSide = "DEFENDER"
          THEN pendingNewGameWithBotOpening /\ setupSubmitting /\ loading
          ELSE ~pendingNewGameWithBotOpening /\ ~setupSubmitting /\ ~loading
  /\ ( /\ last.ev = "state"
       /\ last.pend
       /\ state.humanSide = "DEFENDER"
       /\ Len(state.moveHistory) = 1 )
     => (~pendingNewGameWithBotOpening /\ ~loading)

(* C12 witness: a bot-opens game was just requested on a socket that is not
   connected: nothing was emitted and the three flags are set. *)
C12_Witness ==
  /\ last.ev = "startNewGame"
  /\ ~connected
  /\ last.calls[1].payload.humanSide = "DEFENDER"
  /\ last.calls[1].emits = 0
  /\ pendingNewGameWithBotOpening
  /\ setupSubmitting
  /\ loading

(* The text the claim of C13 expects after a failure of the given kind *)
ConnectionText == << "No se pudo conectar al servidor de juego." >>

(* C13, as claimed: after a failed call the message is the text of the
   action followed by the text of the failure kind: the slow-move text after
   an ack timeout (and loading is off), the connection text after a connect
   timeout or a connect_error with any reason, the invalid-move text after
   an illegal_move rejection, and the text of the action alone after any
   other rejection. *)
C13_Original ==
  (last.ev \in {"ack_timeout", "connect_timeout", "connect_error", "ack_error"}) =>
    \E k \in 1..Len(last.calls) :
      LET c == last.calls[k]
          action == ErrorMessageOf(c.event) IN
      /\ last.ev = "ack_timeout" =>
           /\ message = << action, ". ",
                "La jugada esta tardando mas de lo esperado. Intenta de nuevo en unos segundos." >>
           /\ ~loading
      /\ last.ev \in {"connect_timeout", "connect_error"} =>
           message = << action, ". " >> \o ConnectionText
      /\ last.ev = "ack_error" =>
           message = IF RawError(c) = << "illegal_move" >>
                     THEN << action, ". ", "La jugada no es valida segun el estado actual." >>
                     ELSE << action >>

(* The two-click transition table, on the snapshot st, the selection sel and
   the clicked square sq: the selection after the click and whether a move
   is requested. *)
OwnedMovable(st, sq) ==
  /\ st.board[sq.row * 9 + sq.col] \in
       (IF st.humanSide = "ATTACKER" THEN {"A"} ELSE {"D", "K"})
  /\ \E k \in 1..Len(st.legalMoves) : st.legalMoves[k].from = sq

TwoClick(st, sel, sq) ==
  IF st = Null \/ st.sideToMove # st.humanSide \/ st.phase # "IN_PROGRESS"
    THEN [selected |-> sel, request |-> FALSE]
  ELSE IF sel = Null
    THEN [selected |-> IF OwnedMovable(st, sq) THEN sq ELSE Null, request |-> FALSE]
  ELSE IF sq = sel
    THEN [selected |-> Null, request |-> FALSE]
  ELSE IF \E k \in 1..Len(st.legalMoves) :
            st.legalMoves[k].from = sel /\ st.legalMoves[k].to = sq
    THEN [selected |-> Null, request |-> TRUE]
  ELSE [selected |-> IF OwnedMovable(st, sq) THEN sq ELSE Null, request |-> FALSE]

(* C14: for every held snapshot, selection and clicked square, the
   selection after onCellClick is the one of the two-click table, and a
   move:play call is made exactly when the table requests a move; off the
   human's turn nothing changes. *)
C14_TwoClickTable ==
  [][ \A sq \in Squares :
        OnCellClick(sq.row, sq.col) =>
          LET t == TwoClick(state, selectedFrom, sq) IN
          /\ selectedFrom' = t.selected
          /\ IF t.request
             THEN /\ Len(calls') = Len(calls) + 1
                  /\ calls'[Len(calls')].event = "move:play"
             ELSE calls' = calls
          /\ (state = Null \/ ~(state.sideToMove = state.humanSide /\ state.phase = "IN_PROGRESS"))
               => UNCHANGED <<appVars, calls>> ]_vars

(* C14 witness: with a defender selected, a click on the king, which has
   legal moves, moved the selection to the king. *)
C14_Witness ==
  /\ last.ev = "onCellClick"
  /\ last.hadSel
  /\ state # Null
  /\ state.humanSide = "DEFENDER"
  /\ selectedFrom = Pos(4, 6)
  /\ last.calls = <<>>

(* The log the claim of C15 expects from the history of st: its records
   formatted, the latest first, at most 40 of them. *)
NewestFortyOf(st) ==
  LET n == Len(st.moveHistory)
      kept == IF n < 40 THEN n ELSE 40 IN
  [i \in 1..kept |-> HistoryLine(st.moveHistory[n + 1 - i])]

(* C15: a state push whose id differs from the held id, or that finds none
   held, replaces the log by the formatted move history of the snapshot,
   latest record first, cut to 40, keeping no earlier line; a state push
   with the held id leaves the log as it was. *)
C15_LogOnGameChange ==
  [][ last'.ev = "state" =>
        IF last'.sameGame THEN logs' = logs ELSE logs' = NewestFortyOf(state') ]_vars

(* C15 witness: a push of another game, 41 moves long, replaced a log that
   held notification lines by the 40 latest records. *)
C15_Witness ==
  /\ last.ev = "state"
  /\ ~last.sameGame
  /\ clock > 0
  /\ Len(logs) = 40
  /\ logs[1][1] = "#" /\ logs[1][2] = 41
  /\ logs[40][1] = "#" /\ logs[40][2] = 2

(* What C16 expects of a bootstrap that resolved the identifier id: one join
   with it, or, with none, no call, loading off and the setup prompt open. *)
BootstrapsWith(id, cs, isLoading, isSetupOpen) ==
  IF id # NoId
  THEN Len(cs) = 1 /\ cs[1].event = "join" /\ cs[1].payload = [gameId |-> id]
  ELSE cs = <<>> /\ ~isLoading /\ isSetupOpen

(* C16, as claimed: whenever a snapshot is held the URL parameter and the
   local key both hold its id, and a bootstrap joins with the URL identifier
   if present, else with the locally stored one, else opens the setup
   prompt. *)
C16_Original ==
  /\ state # Null => (urlId = state.id /\ lsId = state.id)
  /\ last.ev = "constructor" =>
       BootstrapsWith(IF Trim(urlId) # NoId THEN Trim(urlId) ELSE lsId,
                      calls, loading, setupOpen)

(* C16, amended: an accepted snapshot writes its id to the URL parameter
   always and to the local key when the storage accepts the write (a
   failing write is ignored and leaves the key as it was), so whenever a
   snapshot is held the URL parameter equals its id; a page load joins once
   with the trimmed URL identifier if it is not blank, else with the local
   one if the storage can be read and holds one, else makes no call, leaves
   loading off and opens the setup prompt; a reload while a snapshot is
   held therefore joins the game of that snapshot. *)
C16_ReloadResumes ==
  [][ /\ \A st \in Snapshots, writable \in BOOLEAN :
           OnStateStoring(st, writable) =>
             /\ urlId' = st.id
             /\ lsId' = (IF writable THEN st.id ELSE lsId)
      /\ state' # Null => urlId' = state'.id
      /\ \A raw \in RawUrlIds \cup {urlId}, readable \in BOOLEAN :
           PageLoad(raw, readable) =>
             /\ BootstrapsWith(IF Trim(raw) # NoId THEN Trim(raw)
                               ELSE IF readable THEN lsId ELSE NoId,
                               calls', loading', setupOpen')
             /\ (raw = urlId /\ state # Null) =>
                  (Len(calls') = 1 /\ calls'[1].payload.gameId = state.id) ]_vars

(* C16 witness: the snapshot of game g2 was accepted while the storage
   refused the write: the URL parameter holds g2, the local key still g1. *)
C16_Witness ==
  /\ last.ev = "state"
  /\ state.id = "g2"
  /\ urlId = "g2"
  /\ lsId = "g1"

(* C17, as claimed: right after a state push the message is empty and
   loading and setupSubmitting are both false. *)
C17_Original ==
  last.ev = "state" => (message = <<>> /\ ~loading /\ ~setupSubmitting)

(* C17, amended: right after a state push the message is empty; loading and
   setupSubmitting are false, unless the push found
   pendingNewGameWithBotOpening set and its snapshot does not show the bot's
   opening move (humanSide DEFENDER with a non-empty history): then loading
   is true after the push, whatever it was, and setupSubmitting and the
   flag are as they were. *)
C17_FlagsAfterPush ==
  [][ last'.ev = "state" =>
        /\ message' = <<>>
        /\ IF last'.pend /\ ~BotHasOpened(state')
           THEN loading' /\ UNCHANGED <<setupSubmitting, pendingNewGameWithBotOpening>>
           ELSE ~loading' /\ ~setupSubmitting' /\ ~pendingNewGameWithBotOpening' ]_vars

(* C17 witness: while a bot-opens game is awaited, the snapshot of the new
   game before the opening move was accepted for the first time, and
   loading and setupSubmitting are on. *)
C17_Witness ==
  /\ last.ev = "state"
  /\ ~last.dup
  /\ last.pend
  /\ state.humanSide = "DEFENDER"
  /\ Len(state.moveHistory) = 0
  /\ loading
  /\ setupSubmitting
  /\ message = <<>>

(* C18: whenever a square is selected, a snapshot is held, it is the
   human's turn in it, the selected square holds a piece of the human side
   and at least one legal move of the snapshot starts there. *)
C18_SelectionValid ==
  selectedFrom # Null =>
    /\ state # Null
    /\ state.sideToMove = state.humanSide
    /\ state.phase = "IN_PROGRESS"
    /\ OwnedMovable(state, selectedFrom)

(* C18 witness: the attacker at (0,3), which has one legal move, was
   selected by a click while another attacker was selected. *)
C18_Witness ==
  /\ last.ev = "onCellClick"
  /\ last.hadSel
  /\ state # Null
  /\ state.humanSide = "ATTACKER"
  /\ selectedFrom = Pos(0, 3)

(* C19, as claimed: once game:over has set the message naming the winner,
   the message stays as long as the same game is the active one, whatever
   is handled next. *)
C19_Original ==
  [][ ( /\ \E w \in Sides :
             message = << "Juego terminado. Ganador: ",
                          IF w = "ATTACKER" THEN "Atacante" ELSE "Defensor" >>
        /\ currentStateGameId # NoId
        /\ currentStateGameId' = currentStateGameId )
      => message' = message ]_vars

(* C20, as claimed: between handlers, pendingNewGameWithBotOpening set
   implies loading and setupSubmitting set. *)
C20_Original ==
  pendingNewGameWithBotOpening => (loading /\ setupSubmitting)

====
